---- MODULE Spec2Model ----
(***************************************************************************)
(* The WAL ingestion pipeline of the stackdriver-prometheus-sidecar:       *)
(* retrieval.PrometheusReader (Run, Stop) reading a segmented WAL through  *)
(* the tailer and the tsdb WAL reader, resolving samples in the series     *)
(* cache under a concurrent garbage collector, and handing metric families *)
(* to the appender; and the actor group of main that runs and stops it.    *)
(***************************************************************************)
EXTENDS Integers, Sequences, FiniteSets, TLC

VARIABLES
    wal,        \* the records written by the producer, in WAL order, each with its segment
    hiSeg,      \* number of the highest segment created by the producer
    minSeg,     \* number of the oldest segment still on disk
    pc,         \* position of PrometheusReader.Run
    curSeg,     \* tailer.CurrentSegment()
    pos,        \* index in wal of the next record the tailer will emit
    rec,        \* reader.Record(): the record being processed
    idx,        \* index of the next entry of rec to process
    cache,      \* seriesCache entries: ref -> [labels, maxSegmentSeen]
    cancelled,  \* the cancellation token of the tailer's context has fired
    readerErr,  \* reader.Err()
    retErr,     \* the value Run returned
    gcPc,       \* position of seriesCache.run
    gcSmin,     \* oldest surviving segment found by the collector's latest scan of the directory
    stopPc,     \* position of the caller of PrometheusReader.Stop
    appended,   \* the Append calls made so far, in call order
    seen,       \* the samples the loop has handled, with whether their ref was declared in a retained segment
    warned,     \* number of "Unknown series ref in sample" warnings logged
    droppedCounter, \* the samples-dropped-unknown-ref counter
    grpPc,      \* position of group.Run in main
    qmStopped,  \* queueManager.Stop has been invoked
    lateAppend, \* an Append call was made after queueManager.Stop was invoked
    grpErr,     \* the error group.Run returns: that of the first actor to return
    inFlight,   \* number of Append calls that have not returned
    orphans     \* timestamps of the samples written when every declaration of their ref was in a deleted segment

vars == <<wal, hiSeg, minSeg, pc, curSeg, pos, rec, idx, cache, cancelled,
          readerErr, retErr, gcPc, gcSmin, stopPc, appended, seen,
          warned, droppedCounter, grpPc, qmStopped, lateAppend, grpErr, inFlight,
          orphans>>

producerVars == <<wal, hiSeg, minSeg, orphans>>
mainVars == <<grpPc, qmStopped, grpErr>>

----------------------------------------------------------------------------
(* Bounds of the model *)

\* total number of records the producer writes
MaxRecords == 2
\* highest segment number the producer creates
MaxSegment == 2
\* number of records the producer may be ahead of the tailer
MaxBacklog == 1

----------------------------------------------------------------------------
(* Data *)

MetricName == "__name__"
\* the reset-timestamp sentinel; distinct from every timestamp
NoTimestamp == "NoTimestamp"
NoErr == "nil"
NoRecord == [kind |-> "none", seg |-> 0, bad |-> FALSE, items |-> <<>>]

Refs == {1, 2, 3}

Label(n, v) == [Name |-> n, Value |-> v]

\* The label set the producer declares for each ref (a ref is unique within the WAL):
\* one with the name label between other labels, one without a name label, an empty one.
LabelsOf(ref) ==
    CASE ref = 1 -> <<Label("a", "1"), Label(MetricName, "x"), Label("b", "2")>>
      [] ref = 2 -> <<Label("job", "j")>>
      [] OTHER   -> <<>>

ValueOf(t) == 100 + t

SeriesPayloads == {<<1>>, <<2, 3>>}
SamplePayloads == {<<1, 1>>, <<2, 1, 3>>}

RECURSIVE CountSamples(_)
CountSamples(w) ==
    IF w = <<>> THEN 0
    ELSE (IF w[1].kind = "samples" THEN Len(w[1].items) ELSE 0) + CountSamples(Tail(w))

SeriesRecord(refs, seg, bad) ==
    [kind |-> "series", seg |-> seg, bad |-> bad,
     items |-> [i \in 1..Len(refs) |-> [Ref |-> refs[i], Labels |-> LabelsOf(refs[i])]]]

SamplesRecord(refs, seg, bad, t0) ==
    [kind |-> "samples", seg |-> seg, bad |-> bad,
     items |-> [i \in 1..Len(refs) |->
                  [Ref |-> refs[i], T |-> t0 + i, V |-> ValueOf(t0 + i)]]]

OtherRecord(kind, seg) ==
    [kind |-> kind, seg |-> seg, bad |-> FALSE, items |-> <<>>]

\* The records the producer can write next into segment seg.
Writable(seg, t0) ==
    {SeriesRecord(p, seg, FALSE) : p \in SeriesPayloads}
    \cup {SamplesRecord(p, seg, FALSE, t0) : p \in SamplePayloads}
    \cup {SeriesRecord(<<1>>, seg, TRUE), SamplesRecord(<<1>>, seg, TRUE, t0),
          OtherRecord("tombstones", seg), OtherRecord("corrupt", seg)}

----------------------------------------------------------------------------
(* SegmentStore: the producer writes, rotates and truncates the WAL *)

\* the segments holding a decodable declaration of ref
DeclSegs(ref) ==
    {wal[j].seg : j \in {k \in 1..Len(wal) :
        /\ wal[k].kind = "series" /\ ~wal[k].bad
        /\ \E m \in 1..Len(wal[k].items) : wal[k].items[m].Ref = ref}}

\* the samples of record r whose ref is declared, but only in segments below smin
Orphaned(r, smin) ==
    {r.items[m].T : m \in {k \in 1..Len(r.items) :
        /\ r.kind = "samples"
        /\ DeclSegs(r.items[k].Ref) # {}
        /\ \A sg \in DeclSegs(r.items[k].Ref) : sg < smin}}

\* records not yet emitted by the tailer that lie in surviving segments
Backlog == Cardinality({i \in pos..Len(wal) : wal[i].seg >= minSeg})

ProducerWrite ==
    /\ Len(wal) < MaxRecords
    /\ Backlog < MaxBacklog
    /\ \E r \in Writable(hiSeg, CountSamples(wal)) :
          /\ wal' = Append(wal, r)
          /\ orphans' = orphans \cup Orphaned(r, minSeg)
    /\ UNCHANGED <<hiSeg, minSeg>>

ProducerRotate ==
    /\ hiSeg < MaxSegment
    /\ hiSeg' = hiSeg + 1
    /\ UNCHANGED <<wal, minSeg, orphans>>

\* The producer deletes the lowest-numbered segment; never the live one, and
\* never one the running tailer has not passed.
ProducerDelete ==
    /\ minSeg < hiSeg
    /\ pc = "init" \/ minSeg < curSeg
    /\ minSeg' = minSeg + 1
    /\ UNCHANGED <<wal, hiSeg, orphans>>

----------------------------------------------------------------------------
(* Tailer: one stream over the segments, blocking at the tail *)

\* A tailer that reads what is on disk first and looks at the token only at
\* the end of the data.
TailerReadDataFirst ==
    IF pos <= Len(wal) /\ wal[pos].seg = curSeg THEN "record"
    ELSE IF cancelled THEN "cancelled"
    ELSE IF hiSeg > curSeg THEN "advance"
    ELSE "wait"

\* A tailer that reports the end of the stream when it has nothing more to read.
TailerReadEofAtTail ==
    IF cancelled THEN "cancelled"
    ELSE IF pos <= Len(wal) /\ wal[pos].seg = curSeg THEN "record"
    ELSE IF hiSeg > curSeg THEN "advance"
    ELSE "cancelled"

\* A tailer that moves on as soon as the successor segment exists and still
\* serves what is left of the segments behind it.
TailerReadRechecksOld ==
    IF cancelled THEN "cancelled"
    ELSE IF hiSeg > curSeg THEN "advance"
    ELSE IF pos <= Len(wal) /\ wal[pos].seg <= curSeg THEN "record"
    ELSE "wait"

\* What a read from the tailer meets: every read fails once the token has
\* fired; otherwise the next record of the current segment, or the successor
\* segment, or nothing yet (the read blocks).
TailerRead ==
    IF cancelled THEN "cancelled"
    ELSE IF pos <= Len(wal) /\ wal[pos].seg = curSeg THEN "record"
    ELSE IF hiSeg > curSeg THEN "advance"
    ELSE "wait"

\* tail.Tail: replay begins at the oldest surviving segment.
TailStart == CHOOSE i \in 1..(Len(wal) + 1) :
                /\ \A j \in 1..(i - 1) : wal[j].seg < minSeg
                /\ i <= Len(wal) => wal[i].seg >= minSeg

----------------------------------------------------------------------------
(* SeriesCache *)

NoCache == [r \in {} |-> 0]

Max(a, b) == IF a >= b THEN a ELSE b

CacheSet(c, ref, labels, seg) ==
    [r \in DOMAIN c \cup {ref} |->
        IF r = ref
        THEN [labels |-> labels,
              maxSegmentSeen |-> IF ref \in DOMAIN c
                                 THEN Max(c[ref].maxSegmentSeen, seg) ELSE seg]
        ELSE c[r]]

CacheHas(c, ref) == ref \in DOMAIN c

CacheGet(c, ref) == c[ref].labels

\* A collection that also removes the entries seen in the oldest surviving segment.
EvictableInclusive(c, smin) == {r \in DOMAIN c : c[r].maxSegmentSeen <= smin}

\* the entries a collection that found smin as the oldest surviving segment removes
Evictable(c, smin) == {r \in DOMAIN c : c[r].maxSegmentSeen < smin}

CacheEvict(c, smin) == [r \in DOMAIN c \ Evictable(c, smin) |-> c[r]]

\* seriesCache.run: the collector scans the directory ...
GcScan ==
    /\ gcPc = "idle"
    /\ pc # "panic"
    /\ ~cancelled
    /\ gcSmin' = minSeg
    /\ gcPc' = "scanned"
    /\ UNCHANGED <<producerVars, pc, curSeg, pos, rec, idx, cache, cancelled, readerErr,
                   retErr, stopPc, appended, seen, warned, droppedCounter, mainVars, lateAppend,
                   inFlight>>

\* ... and then removes the entries older than what it found.
GcEvict ==
    /\ gcPc = "scanned"
    /\ pc # "panic"
    /\ cache' = CacheEvict(cache, gcSmin)
    /\ gcPc' = "idle"
    /\ UNCHANGED <<producerVars, pc, curSeg, pos, rec, idx, cancelled, readerErr,
                   retErr, gcSmin, stopPc, appended, seen, warned, droppedCounter, mainVars,
                   lateAppend, inFlight>>

\* The collector's loop ends when the context is done.
GcStop ==
    /\ gcPc = "idle"
    /\ pc # "panic"
    /\ cancelled
    /\ gcPc' = "stopped"
    /\ UNCHANGED <<producerVars, pc, curSeg, pos, rec, idx, cache, cancelled, readerErr,
                   retErr, gcSmin, stopPc, appended, seen, warned,
                   droppedCounter, mainVars, lateAppend, inFlight>>

----------------------------------------------------------------------------
(* Translator *)

HasName(lset) == \E i \in 1..Len(lset) : lset[i].Name = MetricName

\* the value of the last name label of lset (the loop overwrites), "" when there is none
RECURSIVE NameOf(_)
NameOf(lset) ==
    IF lset = <<>> THEN ""
    ELSE IF lset[Len(lset)].Name = MetricName THEN lset[Len(lset)].Value
    ELSE NameOf(SubSeq(lset, 1, Len(lset) - 1))

\* A translation that leaves the name label among the metric's labels.
OtherLabelsKeepName(lset) == lset

\* the labels of lset other than the name label, in their order
RECURSIVE OtherLabels(_)
OtherLabels(lset) ==
    IF lset = <<>> THEN <<>>
    ELSE IF lset[1].Name = MetricName THEN OtherLabels(Tail(lset))
    ELSE <<lset[1]>> \o OtherLabels(Tail(lset))

\* make([]*dto.LabelPair, 0, len(lset)-1) panics when the capacity is negative
MakePanics(lset) == Len(lset) - 1 < 0

\* A translation that puts the sample's value where its timestamp belongs.
TranslateSwapsValueAndTimestamp(lset, sample) ==
    [HasName |-> HasName(lset),
     Name |-> NameOf(lset),
     Label |-> OtherLabels(lset),
     Type |-> "UNTYPED",
     Value |-> sample.T,
     TimestampMs |-> sample.V,
     ResetTimestampMs |-> <<NoTimestamp>>,
     TargetLabels |-> lset,
     Ref |-> sample.Ref]

\* the metric family Run builds for a sample of a series with labels lset
Translate(lset, sample) ==
    [HasName |-> HasName(lset),
     Name |-> NameOf(lset),
     Label |-> OtherLabels(lset),
     Type |-> "UNTYPED",
     Value |-> sample.V,
     TimestampMs |-> sample.T,
     ResetTimestampMs |-> <<NoTimestamp>>,
     TargetLabels |-> lset,
     Ref |-> sample.Ref]

\* NewMetricFamily: the construction fails for a family without a name
NewMetricFamilyFails(mf) == ~mf.HasName

----------------------------------------------------------------------------
(* PrometheusReader.Run *)

Done == {"done", "panic"}

readerVars == <<pc, curSeg, pos, rec, idx, cache, readerErr, retErr>>
logVars == <<appended, seen, warned, droppedCounter, lateAppend, inFlight>>
gcVars == <<gcPc, gcSmin>>

\* Run: the context, the tailer at the oldest surviving segment, an empty
\* series cache and its collector.
RunStart ==
    /\ pc = "init"
    /\ pc' = "next"
    /\ curSeg' = minSeg
    /\ pos' = TailStart
    /\ cache' = NoCache
    /\ gcPc' = "idle"
    /\ UNCHANGED <<producerVars, rec, idx, cancelled, readerErr, retErr, gcSmin, stopPc, logVars, mainVars>>

\* tail.Tail fails: Run logs the error and returns it.
RunStartFail ==
    /\ pc = "init"
    /\ pc' = "done"
    /\ retErr' = "io"
    /\ UNCHANGED <<producerVars, curSeg, pos, rec, idx, cache, cancelled, readerErr,
                   gcVars, stopPc, logVars, mainVars>>

\* The tailer, at the end of its segment with the successor visible, moves on
\* (inside the read reader.Next is blocked in).
TailerAdvance ==
    /\ pc = "next"
    /\ TailerRead = "advance"
    /\ curSeg' = curSeg + 1
    /\ UNCHANGED <<producerVars, pc, pos, rec, idx, cache, cancelled, readerErr, retErr,
                   gcVars, stopPc, logVars, mainVars>>

\* wal.Reader.Next: the error of the read that ended it, NoErr for a record or
\* the end of the stream.
ReadError(outcome) ==
    CASE outcome = "cancelled" -> NoErr
      [] outcome = "corrupt"   -> "corrupt"
      [] outcome = "io"        -> "io"
      [] OTHER                 -> NoErr

\* wal.Reader.Next returns true exactly for a record read without error.
NextOk(outcome) == outcome = "record"

\* What the loop of Run does with the result of reader.Next(): the value it
\* returns, or "loop" when it goes on to the record.
LoopResult(ok, err) ==
    IF ok THEN (IF err # NoErr THEN err ELSE "loop") ELSE NoErr

\* A loop that ends at a tombstones record.
DispatchStopsAtTombstones(r) ==
    CASE r.kind = "series"     -> IF r.bad THEN "next" ELSE "series"
      [] r.kind = "samples"    -> IF r.bad THEN "next" ELSE "samples"
      [] r.kind = "tombstones" -> "done"
      [] OTHER                 -> "next"

\* A loop that goes on with what the decoder returned next to its error.
DispatchIgnoresDecodeError(r) ==
    CASE r.kind = "series"  -> "series"
      [] r.kind = "samples" -> "samples"
      [] OTHER              -> "next"

\* Where the switch on the record's type sends the loop.
Dispatch(r) ==
    CASE r.kind = "series"  -> IF r.bad THEN "next" ELSE "series"
      [] r.kind = "samples" -> IF r.bad THEN "next" ELSE "samples"
      [] OTHER              -> "next"

\* One call of reader.Next() and the loop's reaction to it; outcome is what the
\* read met.
NextStep(outcome) ==
    LET ok  == NextOk(outcome)
        err == ReadError(outcome)
        res == LoopResult(ok, err)
    IN  /\ readerErr' = err
        /\ IF res = "loop"
           THEN /\ rec' = wal[pos]
                /\ pos' = pos + 1
                /\ idx' = 1
                /\ pc' = Dispatch(wal[pos])
                /\ UNCHANGED retErr
           ELSE /\ pc' = "done"
                /\ retErr' = res
                /\ UNCHANGED <<rec, pos, idx>>
        /\ UNCHANGED <<producerVars, curSeg, cache, cancelled, gcVars, stopPc, logVars, mainVars>>

ReaderNext ==
    /\ pc = "next"
    /\ \/ /\ TailerRead = "cancelled"
          /\ NextStep("cancelled")
       \/ /\ TailerRead = "record"
          /\ NextStep(IF wal[pos].kind = "corrupt" THEN "corrupt" ELSE "record")

\* A read of the tailer fails with an I/O error other than EOF.
ReaderIOError ==
    /\ pc = "next"
    /\ TailerRead # "cancelled"
    /\ NextStep("io")

\* The series entry the range loop of a series record takes at step k.
SeriesAt(r, k) == r.items[k]

\* A declaration recorded one segment ahead of the tailer.
SetSegmentNext == curSeg + 1

\* A declaration recorded with the segment before the tailer's.
SetSegmentBehind == IF curSeg > 0 THEN curSeg - 1 ELSE curSeg

\* The segment Run records for a declaration.
SetSegment == curSeg

\* case tsdb.RecordSeries: one seriesCache.set per declared series.
RunSeries ==
    /\ pc = "series"
    /\ LET s == SeriesAt(rec, idx)
       IN  cache' = CacheSet(cache, s.Ref, s.Labels, SetSegment)
    /\ idx' = idx + 1
    /\ pc' = IF idx = Len(rec.items) THEN "next" ELSE "series"
    /\ UNCHANGED <<producerVars, curSeg, pos, rec, cancelled, readerErr, retErr, gcVars,
                   stopPc, logVars, mainVars>>

\* A loop that walks the samples of a record from the last to the first.
SampleAtReversed(r, k) == r.items[Len(r.items) - k + 1]

\* The sample the range loop of a sample record takes at step k.
SampleAt(r, k) == r.items[k]

\* ref has a decodable declaration in a record before the one being processed,
\* in a segment that is still on disk
Retained(ref) ==
    \E j \in 1..(pos - 2) :
        /\ wal[j].kind = "series" /\ ~wal[j].bad
        /\ wal[j].seg >= minSeg
        /\ \E k \in 1..Len(wal[j].items) : wal[j].items[k].Ref = ref

\* What Run does with a sample: "unknown" (no cache entry), "panic" (building
\* the metric panics), "failed" (NewMetricFamily returns an error) or "append".
SampleOutcome(c, sample) ==
    IF ~CacheHas(c, sample.Ref) THEN "unknown"
    ELSE IF MakePanics(CacheGet(c, sample.Ref)) THEN "panic"
    ELSE IF NewMetricFamilyFails(Translate(CacheGet(c, sample.Ref), sample)) THEN "failed"
    ELSE "append"

\* A loop that hands the metric family over and goes on without waiting for
\* Append to return.
AppendPcDetached(more) == IF more THEN "samples" ELSE "next"

\* Where Run is after calling r.appender.Append(f): in the call, whether or not
\* the record has more samples.
AppendPc(more) == "append"

\* case tsdb.RecordSamples: one sample of the record, up to the call of Append.
RunSample ==
    /\ pc = "samples"
    /\ LET sample == SampleAt(rec, idx)
           out    == SampleOutcome(cache, sample)
       IN  /\ seen' = seen \cup {[T |-> sample.T, Ref |-> sample.Ref,
                                  retained |-> Retained(sample.Ref)]}
           /\ warned' = IF out = "unknown" THEN warned + 1 ELSE warned
           /\ appended' = IF out = "append"
                          THEN Append(appended, Translate(CacheGet(cache, sample.Ref), sample))
                          ELSE appended
           /\ lateAppend' = (lateAppend \/ (out = "append" /\ qmStopped))
           /\ inFlight' = IF out = "append" THEN inFlight + 1 ELSE inFlight
           /\ pc' = IF out = "panic" THEN "panic"
                    ELSE IF out = "append" THEN AppendPc(idx < Len(rec.items))
                    ELSE IF idx = Len(rec.items) THEN "next" ELSE "samples"
    /\ idx' = idx + 1
    /\ UNCHANGED <<producerVars, curSeg, pos, rec, cache, cancelled, readerErr, retErr,
                   gcVars, stopPc, droppedCounter, mainVars>>

\* The appender returns from Append; Run goes on with the next sample of the
\* record, or with the next record.
AppendReturn ==
    /\ inFlight > 0
    /\ inFlight' = inFlight - 1
    /\ pc' = IF pc = "append"
             THEN (IF idx > Len(rec.items) THEN "next" ELSE "samples")
             ELSE pc
    /\ UNCHANGED <<producerVars, curSeg, pos, rec, idx, cache, cancelled, readerErr, retErr,
                   gcVars, stopPc, appended, seen, warned, droppedCounter, lateAppend,
                   mainVars>>

\* PrometheusReader.Stop: calls r.cancelTail, which is nil until Run has set it.
Stop ==
    /\ stopPc = "idle"
    /\ IF pc = "init"
       THEN /\ stopPc' = "panic"
            /\ pc' = "panic"
            /\ UNCHANGED cancelled
       ELSE /\ stopPc' = "returned"
            /\ cancelled' = TRUE
            /\ UNCHANGED pc
    /\ UNCHANGED <<producerVars, curSeg, pos, rec, idx, cache, readerErr, retErr, gcVars,
                   logVars, mainVars>>

\* The WAL is followed while Run reads it.
Producer ==
    /\ pc \notin Done
    /\ ~cancelled
    /\ ProducerWrite \/ ProducerRotate \/ ProducerDelete
    /\ UNCHANGED <<readerVars, cancelled, gcVars, stopPc, logVars, mainVars>>

----------------------------------------------------------------------------
(* The reader, its collector, the producer and a caller of Stop *)

Init ==
    /\ wal = <<>>
    /\ hiSeg = 0
    /\ minSeg = 0
    /\ pc = "init"
    /\ curSeg = 0
    /\ pos = 1
    /\ rec = NoRecord
    /\ idx = 1
    /\ cache = NoCache
    /\ cancelled = FALSE
    /\ readerErr = NoErr
    /\ retErr = NoErr
    /\ gcPc = "off"
    /\ gcSmin = 0
    /\ stopPc = "idle"
    /\ appended = <<>>
    /\ seen = {}
    /\ warned = 0
    /\ droppedCounter = 0
    /\ grpPc = "run"
    /\ qmStopped = FALSE
    /\ lateAppend = FALSE
    /\ grpErr = NoErr
    /\ inFlight = 0
    /\ orphans = {}

Next ==
    \/ Producer
    \/ RunStart
    \/ RunStartFail
    \/ TailerAdvance
    \/ ReaderNext
    \/ ReaderIOError
    \/ RunSeries
    \/ RunSample
    \/ AppendReturn
    \/ GcScan
    \/ GcEvict
    \/ GcStop
    \/ Stop

Spec == Init /\ [][Next]_vars

----------------------------------------------------------------------------
(* main: the actor group that runs the reader and the queue manager *)

groupFrame == <<producerVars, curSeg, pos, rec, idx, cache, readerErr, retErr, gcVars,
                stopPc, logVars>>

\* The reader's actor returns without calling Run when the context is done
\* before its wait is over.
ReaderActorSkip ==
    /\ pc = "init"
    /\ cancelled
    /\ pc' = "done"
    /\ UNCHANGED <<groupFrame, cancelled, mainVars>>

\* The error group.Run can receive first: nil from the signal handler, and the
\* value Run returned once the reader's actor has returned.
FirstErrors == IF pc = "done" THEN {NoErr, retErr} ELSE {NoErr}

\* group.Run waits for the first actor to return (the signal handler on
\* SIGTERM, the reader when Run returns, the queue manager or the web server
\* on an error) and then interrupts every actor in the order they were added:
\* first the target cache and the signal handler,
GroupFirstReturn ==
    /\ grpPc = "run"
    /\ grpPc' = "cancelReader"
    /\ \E e \in FirstErrors : grpErr' = e
    /\ UNCHANGED <<groupFrame, pc, cancelled, qmStopped>>

\* then the reader, by cancel() of the context the tailer reads under,
GroupCancelReader ==
    /\ grpPc = "cancelReader"
    /\ cancelled' = TRUE
    /\ grpPc' = "stopQueue"
    /\ UNCHANGED <<groupFrame, pc, qmStopped, grpErr>>

\* then the queue manager, by queueManager.Stop(), and the web server.
GroupStopQueue ==
    /\ grpPc = "stopQueue"
    /\ qmStopped' = TRUE
    /\ grpPc' = "wait"
    /\ UNCHANGED <<groupFrame, pc, cancelled, grpErr>>

\* group.Run returns when every actor has returned.
GroupWait ==
    /\ grpPc = "wait"
    /\ pc \in Done
    /\ grpPc' = "exit"
    /\ UNCHANGED <<groupFrame, pc, cancelled, qmStopped, grpErr>>

\* main after g.Run: the error is logged and main returns; no os.Exit follows,
\* so the status of the process is that of a normal return.
ExitStatus(err) == 0

Group ==
    \/ GroupFirstReturn
    \/ GroupCancelReader
    \/ GroupStopQueue
    \/ GroupWait

MainNext ==
    \/ Producer
    \/ RunStart
    \/ RunStartFail
    \/ ReaderActorSkip
    \/ TailerAdvance
    \/ ReaderNext
    \/ ReaderIOError
    \/ RunSeries
    \/ RunSample
    \/ AppendReturn
    \/ GcScan
    \/ GcEvict
    \/ GcStop
    \/ Group

MainSpec == Init /\ [][MainNext]_vars

\* The goroutine of Run is scheduled: a call of reader.Next() that can return does.
FairSpec == Spec /\ WF_vars(ReaderNext)

----------------------------------------------------------------------------
(* What the properties speak of *)

\* the Append calls made for the sample with timestamp t (timestamps are unique in the WAL)
AppendsOf(t) == {i \in 1..Len(appended) : appended[i].TimestampMs = t}

\* the refs with a decodable declaration in a segment lo..hi
DeclaredWithin(lo, hi) == {r \in Refs : \E sg \in DeclSegs(r) : lo <= sg /\ sg <= hi}

\* the segment holding the sample with timestamp t
SegOfSample(t) ==
    LET j == CHOOSE k \in 1..Len(wal) :
                 /\ wal[k].kind = "samples"
                 /\ \E m \in 1..Len(wal[k].items) : wal[k].items[m].T = t
    IN  wal[j].seg

\* Append call a carries the declared labels of ref, timestamp t and the value written with t
Carries(a, ref, t) ==
    /\ a.TimestampMs = t
    /\ a.Value = ValueOf(t)
    /\ a.TargetLabels = LabelsOf(ref)
    /\ \A k \in 1..Len(LabelsOf(ref)) :
          IF LabelsOf(ref)[k].Name = MetricName
          THEN a.Name = LabelsOf(ref)[k].Value
          ELSE \E m \in 1..Len(a.Label) : a.Label[m] = LabelsOf(ref)[k]

ExactlyOneAppend(s) ==
    /\ Cardinality(AppendsOf(s.T)) = 1
    /\ \A i \in AppendsOf(s.T) : Carries(appended[i], s.Ref, s.T)

----------------------------------------------------------------------------
(* C1 *)

\* C1 as stated: every sample Run has handled whose ref is declared earlier in
\* a segment still on disk got exactly one Append call, carrying the declared
\* labels, its timestamp and its value.
C1_EveryRetainedSampleAppended ==
    \A s \in seen : s.retained => ExactlyOneAppend(s)

\* C1 amended: every sample Run has handled whose ref is declared earlier in a
\* segment still on disk, with a label set that holds the name label, got
\* exactly one Append call carrying the declared labels, its timestamp and its
\* value; and no sample ever gets more than one Append call.
C1_RetainedNamedSampleAppendedOnce ==
    /\ \A s \in seen : (s.retained /\ HasName(LabelsOf(s.Ref))) => ExactlyOneAppend(s)
    /\ \A s \in seen : Cardinality(AppendsOf(s.T)) <= 1

\* A sample in segment 2 of a series declared in segment 0, two rotations
\* earlier, has been appended.
C1_Witness ==
    \E s \in seen :
        /\ s.retained /\ HasName(LabelsOf(s.Ref))
        /\ DeclSegs(s.Ref) = {0}
        /\ SegOfSample(s.T) = 2
        /\ AppendsOf(s.T) # {}

----------------------------------------------------------------------------
(* C2 *)

\* C2: every sample whose ref has no cache entry gets no Append call and raises
\* the samples-dropped-unknown-ref counter by one: the counter equals the number
\* of samples dropped for an unknown ref (one warning is logged for each).
C2_UnknownRefCounted ==
    /\ droppedCounter = warned
    /\ \A s \in seen : ~s.retained => AppendsOf(s.T) = {}

----------------------------------------------------------------------------
(* C3 *)

\* C3: once the record reader has stopped on a corrupt record, Run does not
\* return nil.
C3_CorruptIsFatal ==
    (pc = "done" /\ readerErr = "corrupt") => retErr # NoErr

----------------------------------------------------------------------------
(* C4 *)

\* C4: when the token has fired and Run is at a tailer read (before the first
\* read, or blocked at the end of the highest segment), Run eventually
\* returns, and from then on it makes no Append call.
C4_CancelAtReadEndsRun ==
    /\ (cancelled /\ pc = "next") ~> (pc = "done")
    /\ [][(cancelled /\ pc = "next") => (appended' = appended /\ pc' \in {"next", "done"})]_vars

\* The token fired before the first read, with a sample record waiting in the
\* WAL, and Run has returned without reading it.
C4_Witness ==
    /\ cancelled /\ pc = "done"
    /\ rec = NoRecord /\ readerErr = NoErr /\ retErr = NoErr
    /\ pos <= Len(wal) /\ wal[pos].kind = "samples"
    /\ appended = <<>>

----------------------------------------------------------------------------
(* C5 *)

\* C5: whenever a call of Stop has returned, Run has returned.
C5_StopWaitsForRun ==
    stopPc = "returned" => pc = "done"

----------------------------------------------------------------------------
(* C6 *)

----------------------------------------------------------------------------
(* C7 *)

\* C7: a sample written into segment 2 for a ref declared only in segment 0,
\* after segment 0 was deleted, gets no Append call.
C7_DroppedOnceSegmentDeleted ==
    \A s \in seen :
        (s.T \in orphans /\ DeclSegs(s.Ref) = {0} /\ SegOfSample(s.T) = 2)
            => AppendsOf(s.T) = {}

----------------------------------------------------------------------------
(* C8 *)

\* C8: a cache entry disappears only in the evicting step of a collection, and
\* only when its maxSegmentSeen is below the oldest segment on disk at that step.
C8_EvictedOnlyByGcWhenOld ==
    [][\A r \in DOMAIN cache :
          r \notin DOMAIN cache' =>
              /\ gcPc = "scanned" /\ gcPc' = "idle"
              /\ cache[r].maxSegmentSeen < minSeg]_vars

\* A series that was resolved for an Append call is no longer in the cache:
\* its entry has been evicted.
C8_Witness ==
    \E i \in 1..Len(appended) : appended[i].Ref \notin DOMAIN cache

----------------------------------------------------------------------------
(* C9 *)

----------------------------------------------------------------------------
(* C10 *)

\* C10: the reader makes no Append call after queueManager.Stop has been invoked.
C10_NoAppendAfterQueueStop == ~lateAppend

----------------------------------------------------------------------------
(* C11 *)

\* the pipeline ended with a Fatal-IO or a Corrupt-Record error
PipelineFatal == retErr # NoErr \/ readerErr # NoErr

\* C11: when the process has left group.Run after the reader returned, its exit
\* status is non-zero exactly when the pipeline ended with a Fatal-IO or a
\* Corrupt-Record error (and zero when it ended by cancellation).
C11_ExitStatusTellsFatal ==
    (grpPc = "exit" /\ pc = "done") => ((ExitStatus(grpErr) # 0) <=> PipelineFatal)

----------------------------------------------------------------------------
(* C12 *)

\* C12: when the loop has ended on a structural error (a corrupt record or an
\* I/O error other than EOF), Run returns that error, and the collector
\* started by Run eventually terminates.
C12_StructuralErrorSurfacedAndPeersEnd ==
    /\ []((pc = "done" /\ readerErr # NoErr) => retErr # NoErr)
    /\ (pc = "done" /\ readerErr # NoErr) ~> (gcPc = "stopped")

----------------------------------------------------------------------------
(* C13 *)

\* C13: a sample whose cached label set has no name label (the empty label set
\* included) gets no Append call, and handling a sample never brings Run down.
C13_UntranslatableSampleDropped ==
    /\ \A s \in seen : ~HasName(LabelsOf(s.Ref)) => AppendsOf(s.T) = {}
    /\ ~(pc = "panic" /\ rec.kind = "samples")

----------------------------------------------------------------------------
(* C14 *)

\* C14: Run returns only after the token has fired or on a fatal I/O or
\* corrupt-record error; and at the end of the highest segment, with no
\* successor, the loop stays in its read unless the read fails with an I/O error.
C14_TailIsWaitNotEnd ==
    /\ [](pc = "done" => (cancelled \/ PipelineFatal))
    /\ [][(pc = "next" /\ TailerRead = "wait" /\ pc' # "next") => readerErr' = "io"]_vars

\* Run has read two records, the second written after it had read the first,
\* and is blocked at the tail again, the token not fired.
C14_Witness ==
    /\ ~cancelled /\ pc = "next" /\ TailerRead = "wait"
    /\ minSeg = 0 /\ pos = 3 /\ readerErr = NoErr

----------------------------------------------------------------------------
(* C15 *)

\* C15: the tailer's current segment never decreases, and every record handed
\* to the record reader lies in the tailer's current segment: none of a segment
\* the tailer has left.
C15_NoBytesOfLeftSegment ==
    [][/\ curSeg' >= curSeg
       /\ (pc = "next" /\ pos' = pos + 1) => wal[pos].seg = curSeg]_vars

\* A record of segment 1 is being processed after declarations of segment 0
\* were read.
C15_Witness ==
    /\ pc \in {"series", "samples"}
    /\ curSeg = 1 /\ rec.seg = 1
    /\ DOMAIN cache # {}
    /\ \A r \in DOMAIN cache : cache[r].maxSegmentSeen = 0

----------------------------------------------------------------------------
(* C16 *)

\* C16: the step that takes a tombstones record makes no Append call, leaves
\* the series cache as it is and leaves the loop at its next read.
C16_TombstonesIgnored ==
    [][(pc = "next" /\ pos' = pos + 1 /\ wal[pos].kind = "tombstones")
          => (appended' = appended /\ cache' = cache /\ pc' = "next")]_vars

\* A tombstones record was read first, and the declaration after it is in the cache.
C16_Witness ==
    /\ Len(wal) = 2 /\ wal[1].kind = "tombstones" /\ minSeg = 0
    /\ pos = 3 /\ DOMAIN cache # {}

----------------------------------------------------------------------------
(* C17 *)

\* C17: the step that takes a series or samples record the decoder fails on
\* sets no cache entry, makes no Append call and leaves the loop at its next read.
C17_UndecodableRecordSkipped ==
    [][(pc = "next" /\ pos' = pos + 1 /\ wal[pos].bad)
          => (appended' = appended /\ cache' = cache /\ pc' = "next")]_vars

\* An undecodable record was read first, and the record after it is being
\* processed or has been.
C17_Witness ==
    /\ Len(wal) = 2 /\ wal[1].bad /\ minSeg = 0
    /\ pos = 3 /\ wal[2].kind \in {"series", "samples"} /\ ~wal[2].bad
    /\ (DOMAIN cache # {} \/ warned > 0)

----------------------------------------------------------------------------
(* C18 *)

\* C18: at most one Append call is outstanding, Run is inside it while it is,
\* and the position in the WAL moves only at a read of the loop, with no Append
\* call outstanding.
C18_AppendOnDecodeTask ==
    /\ [](inFlight <= 1 /\ (inFlight = 1 => pc = "append"))
    /\ [][pos' # pos => (pc \in {"init", "next"} /\ inFlight = 0)]_vars

\* The appender has not returned: the rest of the record waits, and so does the
\* successor segment the producer has created.
C18_Witness ==
    /\ inFlight = 1 /\ pc = "append"
    /\ idx <= Len(rec.items)
    /\ hiSeg > curSeg

----------------------------------------------------------------------------
(* C19 *)

NotNameLabel(l) == l.Name # MetricName

\* C19: every metric family handed to Append is named by the value of the
\* name label of its series, carries the other labels of the series in their
\* order, is untyped and has the NoTimestamp sentinel as its reset timestamp.
C19_MetricShape ==
    \A i \in 1..Len(appended) :
        LET a    == appended[i]
            lset == LabelsOf(a.Ref)
        IN  /\ \E k \in 1..Len(lset) : lset[k].Name = MetricName /\ a.Name = lset[k].Value
            /\ a.Label = SelectSeq(lset, NotNameLabel)
            /\ a.Type = "UNTYPED"
            /\ a.ResetTimestampMs = <<NoTimestamp>>

\* A metric of a series with labels on both sides of its name label was appended.
C19_Witness ==
    \E i \in 1..Len(appended) :
        /\ Len(appended[i].Label) >= 2
        /\ Len(appended[i].Label) < Len(LabelsOf(appended[i].Ref))

----------------------------------------------------------------------------
(* C20 *)

\* the segments of the declarations of ref that Run has put into the cache
AppliedDeclSegs(ref) ==
    {wal[j].seg : j \in {k \in 1..(pos - 1) :
        /\ wal[k].kind = "series" /\ ~wal[k].bad
        /\ \E m \in 1..Len(wal[k].items) :
              /\ wal[k].items[m].Ref = ref
              /\ (k < pos - 1 \/ pc # "series" \/ m < idx)}}

\* C20: the segment recorded for a declaration is never below the segment
\* that holds the declaration record, and an entry leaves the cache only when
\* every segment holding a declaration it was set from is gone from the disk.
C20_HintNeverBelowDeclaringSegment ==
    [][/\ (pc = "series" /\ idx' = idx + 1)
            => cache'[SeriesAt(rec, idx).Ref].maxSegmentSeen >= rec.seg
       /\ \A r \in DOMAIN cache :
            r \notin DOMAIN cache' => \A sg \in AppliedDeclSegs(r) : sg < minSeg]_vars

\* A collection that found segment 0 gone has removed the entry of a series
\* declared there and kept the entry of one declared later.
C20_Witness ==
    /\ gcPc = "idle" /\ gcSmin >= 1
    /\ \E r \in DOMAIN cache : cache[r].maxSegmentSeen >= gcSmin
    /\ \E q \in Refs \ DOMAIN cache : AppliedDeclSegs(q) # {}

====
